---- MODULE Spec2Model ----
(***************************************************************************)
(* Model of kos/src/telemetry.rs: the process-wide telemetry publisher.    *)
(*                                                                         *)
(* Tasks (tokio tasks on a multi-threaded runtime) call the public         *)
(* functions of Telemetry.  Every function is split into the steps at      *)
(* which another task can observe or change shared state: acquiring or     *)
(* trying a tokio Mutex, reading or writing the guarded value, dropping    *)
(* the guard, an atomic operation, the hand-off to the MQTT client.        *)
(*                                                                         *)
(* Arc<..> cells are modelled as indices into per-field heaps, so a clone  *)
(* of a Telemetry shares the cells of the original.  Option<T> is the      *)
(* empty sequence (None) or a one-element sequence (Some(x)).              *)
(***************************************************************************)
EXTENDS Integers, Sequences, FiniteSets, TLC

\* ---------------------------------------------------------------- bounds
\* Number of concurrently running caller tasks.
NumTasks == 2
\* Number of Telemetry instances (initialize calls that construct one).
MaxInstances == 2
\* Largest value of the scaled-down u64: the counters wrap modulo U64Max + 1
\* the way a u64 wraps modulo 2^64.
U64Max == 2
\* Number of eventloop.poll() results a drain task is followed through.
MaxPolls == 1
\* Number of calls of the public functions that are followed, over all tasks.
MaxCalls == 4

Tasks == 1..NumTasks
Instances == 1..MaxInstances
NoTask == 0

\* ---------------------------------------------------------------- inputs
RobotIds == {"r1", "r2"}
\* mqtt_host: a host the event loop can connect to, or a malformed one.
Hosts == {"localhost", "not a host"}
Ports == {1883}
Topics == {"joints"}
\* Values of type T handed to publish: their JSON text, and whether
\* T's Serialize implementation succeeds.
Payloads ==
    { [data |-> "{\"a\":1}", serializable |-> TRUE],
      [data |-> "<map with non-string keys>", serializable |-> FALSE] }
UpdateValues == {1, U64Max}
\* Values of the ENABLE_TELEMETRY environment variable, as character
\* sequences; <<>> as an Option is "variable not present".
EnvStrings ==
    { <<"f", "a", "l", "s", "e">>,
      <<"F", "a", "l", "s", "e">>,
      <<"t", "r", "u", "e">>,
      <<"F", "A", "L", "S", "E">>,
      <<"f", "a", "l", "s", "e", " ">>,
      <<"0">> }

None == <<>>
Some(x) == <<x>>
IsSome(o) == Len(o) = 1
Unwrap(o) == o[1]

\* Result<T, E> is a pair: which of the two it is, and its content.
Unit == <<>>
Ok(x) == <<"Ok", x>>
Err(e) == <<"Err", e>>

\* ----------------------------------------------------------------- state
VARIABLES
    ENABLE_TELEMETRY,      \* Option<String>: the environment variable
    TELEMETRY_ENABLED,     \* lazy_static bool: None until its first deref
    TELEMETRY,             \* the slot: Option<Telemetry>
    TELEMETRY_lock,        \* holder of the slot's tokio Mutex, or NoTask
    allocated,             \* number of Telemetry instances constructed so far
    frame_number,          \* heap of Arc<Mutex<u64>>: the guarded value
    frame_number_lock,     \*   and the holder of each Mutex
    video_timestamp,
    video_timestamp_lock,
    inference_step,        \* heap of Arc<AtomicU64>
    eventloop,             \* per client: the drain task spawned for it
    handles,               \* the Telemetry values callers have been given
    calls,                 \* number of calls begun
    pc,                    \* per task: position in the function it runs
    local,                 \* per task: arguments and locals of the call
    ret,                   \* per task: the call it runs or ran last, and its result
    observed,              \* per task: history of that call (see Observed0)
    last_install,          \* history: the initialize call that wrote the slot last
                           \*   (its robot_id argument and the Telemetry it built)
    step_history,          \* history: per AtomicU64, the value last stored and
                           \*   the number of increments since
    frame_history          \* history: per frame-number Mutex, the value last
                           \*   written by a store, and the increment calls
                           \*   begun and the additions made since

vars ==
    << ENABLE_TELEMETRY, TELEMETRY_ENABLED, TELEMETRY, TELEMETRY_lock, allocated,
       frame_number, frame_number_lock, video_timestamp, video_timestamp_lock,
       inference_step, eventloop, handles, calls, pc, local, ret, observed,
       last_install, step_history, frame_history >>

globalVars == << TELEMETRY, TELEMETRY_lock >>
envVars == << ENABLE_TELEMETRY, TELEMETRY_ENABLED >>
frameVars == << frame_number, frame_number_lock, frame_history >>
videoVars == << video_timestamp, video_timestamp_lock >>
stepVars == << inference_step, step_history >>
counterVars == << frameVars, videoVars, stepVars >>
instanceVars == << allocated, eventloop >>

\* --------------------------------------------------------------- helpers
\* struct Telemetry: the fields of a handle.  The four Arc fields point into
\* the heaps; robot_id is an owned String.
Telemetry(client, robot_id, fn, vt, st) ==
    [ client |-> client, robot_id |-> robot_id, frame_number |-> fn,
      video_timestamp |-> vt, inference_step |-> st ]

\* A clone that copies the counters into new cells instead of sharing them.
CloneDetached(tel) ==
    Telemetry(tel.client, tel.robot_id, (tel.frame_number % MaxInstances) + 1,
              (tel.video_timestamp % MaxInstances) + 1,
              (tel.inference_step % MaxInstances) + 1)

\* #[derive(Clone)]: Arc::clone of every Arc field, String::clone of robot_id.
Clone(tel) ==
    Telemetry(tel.client, tel.robot_id, tel.frame_number,
              tel.video_timestamp, tel.inference_step)

\* str::to_lowercase on the characters that occur in EnvStrings.
LowerChar(c) ==
    CASE c = "F" -> "f"
      [] c = "A" -> "a"
      [] c = "L" -> "l"
      [] c = "S" -> "s"
      [] c = "E" -> "e"
      [] OTHER -> c

to_lowercase(s) == [k \in 1..Len(s) |-> LowerChar(s[k])]

\* An initializer that compares without lowering the case.
EnabledFromEnvExact(var) ==
    IF IsSome(var) THEN Unwrap(var) # <<"f", "a", "l", "s", "e">> ELSE TRUE

\* The initializer of TELEMETRY_ENABLED:
\*   env::var("ENABLE_TELEMETRY").map(|v| v.to_lowercase() != "false").unwrap_or(true)
EnabledFromEnv(var) ==
    IF IsSome(var)
      THEN to_lowercase(Unwrap(var)) # <<"f", "a", "l", "s", "e">>
      ELSE TRUE

\* Deref of the lazy_static: the initializer runs on the first deref only.
DerefEnabled(cell, var) ==
    IF IsSome(cell) THEN Unwrap(cell) ELSE EnabledFromEnv(var)

\* A counter that starts from the largest value instead of zero.
StaleCounter == U64Max

\* Initial value of each counter of a new instance.
NewCounter == 0

\* MqttOptions built by initialize.
KeepAliveSecs == 5
RequestCapacity == 10

MqttOptions(robot_id, mqtt_host, mqtt_port) ==
    [ client_id |-> "kos-" \o robot_id, host |-> mqtt_host, port |-> mqtt_port,
      keep_alive |-> KeepAliveSecs, capacity |-> RequestCapacity ]

\* A gate that is never closed.
GateOpen(enabled) == FALSE

\* Lines 69-71: `if !*TELEMETRY_ENABLED { return None; }`
GateClosed(enabled) == ~enabled

\* What initialize returns once the client has been built from `options`:
\* AsyncClient::new returns the pair (client, eventloop), never an error.
InitializeResult(options) == Ok(Unit)

\* A slot that keeps its first instance (get_or_insert instead of assignment).
InstallIfEmpty(old, telemetry) == IF IsSome(old) THEN old ELSE Some(telemetry)

\* `*global = Some(telemetry)`: the new value of the slot.
Install(old, telemetry) == Some(telemetry)

\* What `lock().await` needs to proceed, and what try_lock() answers.
LockFree(holder) == holder = NoTask

\* A guard that is forgotten instead of dropped: the Mutex stays held.
GuardLeaked(holder) == holder

\* Drop of the MutexGuard of the slot: the Mutex has no holder.
DropGuard(holder) == NoTask

\* A lock().await in place of try_lock(): the caller waits for the lock.
LockWaits(holder) == LockFree(holder)

\* try_lock() returns at once, with Ok(guard) when the lock is free and Err
\* otherwise: a caller of try_lock is never made to wait.
TryLockReturns(holder) == TRUE

Local0 ==
    [ self |-> None, robot_id |-> "", telemetry |-> None, n |-> 0, topic |-> "",
      payload |-> None, fn |-> 0, vt |-> 0, st |-> 0, body |-> None,
      caller |-> "" ]

Ret0 == [ fn |-> "", args |-> <<>>, val |-> None ]

\* History of a call, kept beside the program state:
\*   snapshot     what the call is about, as it was when the call began (the
\*                slot for try_get, the counter for a counter operation, the
\*                three counters for publish);
\*   free         whether the lock the call tries was free when it tried
\*                (for increment_inference_step: whether both Mutexes were);
\*   undisturbed  whether no counter operation of another task on the same
\*                instance has overlapped the call (kept for publish);
\*   requests     the calls of AsyncClient::publish the call has made;
\*   steps        the number of steps the call has taken;
\*   held         for publish: the values each of the three counters has held
\*                since the call began.
Observed0 ==
    [ snapshot |-> None, free |-> TRUE, undisturbed |-> TRUE, requests |-> <<>>,
      steps |-> 0, held |-> << {}, {}, {} >> ]

Started(snapshot, free) ==
    [Observed0 EXCEPT !.snapshot = snapshot, !.free = free, !.steps = 1]

StepHistory0 == [ stored |-> NewCounter, added |-> 0 ]
FrameHistory0 == [ stored |-> NewCounter, tried |-> 0, added |-> 0 ]

Step(t) == [observed EXCEPT ![t].steps = @ + 1]

\* A task that runs nothing begins a call.
BeginCall(t) ==
    /\ pc[t] = "idle"
    /\ calls < MaxCalls
    /\ calls' = calls + 1

Returned(t, fn, args, val) ==
    ret' = [ret EXCEPT ![t] = [fn |-> fn, args |-> args, val |-> val]]

\* The call goes on after its first step.
Begin(t, fn, args) ==
    /\ BeginCall(t)
    /\ Returned(t, fn, args, None)

Return(t, val) ==
    /\ pc' = [pc EXCEPT ![t] = "idle"]
    /\ local' = [local EXCEPT ![t] = Local0]
    /\ ret' = [ret EXCEPT ![t].val = val]

\* A call that begins and returns in one step.
Call(t, fn, args, val) ==
    /\ BeginCall(t)
    /\ Returned(t, fn, args, val)
    /\ UNCHANGED << pc, local >>

Goto(t, label) == pc' = [pc EXCEPT ![t] = label]

EnvValues == {None} \cup {Some(s) : s \in EnvStrings}

InitEnv(values) ==
    /\ ENABLE_TELEMETRY \in values
    /\ TELEMETRY_ENABLED = None
    /\ TELEMETRY = None
    /\ TELEMETRY_lock = NoTask
    /\ allocated = 0
    /\ frame_number = [i \in Instances |-> NewCounter]
    /\ frame_number_lock = [i \in Instances |-> NoTask]
    /\ video_timestamp = [i \in Instances |-> NewCounter]
    /\ video_timestamp_lock = [i \in Instances |-> NoTask]
    /\ inference_step = [i \in Instances |-> NewCounter]
    /\ eventloop = [i \in Instances |-> [state |-> "absent", options |-> None, polls |-> 0]]
    /\ handles = {}
    /\ calls = 0
    /\ pc = [t \in Tasks |-> "idle"]
    /\ local = [t \in Tasks |-> Local0]
    /\ ret = [t \in Tasks |-> Ret0]
    /\ observed = [t \in Tasks |-> Observed0]
    /\ last_install = None
    /\ step_history = [i \in Instances |-> StepHistory0]
    /\ frame_history = [i \in Instances |-> FrameHistory0]

Init == InitEnv(EnvValues)

\* ------------------------------------------------------------ environment
\* The process environment changes (std::env::set_var / remove_var).
set_var(v) ==
    /\ ENABLE_TELEMETRY # v
    /\ ENABLE_TELEMETRY' = v
    /\ UNCHANGED << TELEMETRY_ENABLED, globalVars, instanceVars, counterVars,
                    handles, calls, pc, local, ret, observed, last_install >>

\* ------------------------------------------------------------- initialize
\* Lines 41-59: the options, the client and its event loop, the spawned drain
\* task, and the new Telemetry with fresh counters.
initialize_call(t, robot_id, mqtt_host, mqtt_port) ==
    /\ Begin(t, "initialize", <<robot_id, mqtt_host>>)
    /\ allocated < MaxInstances
    /\ LET i == allocated + 1 IN
        /\ allocated' = i
        /\ eventloop' = [eventloop EXCEPT ![i] =
              [ state |-> "polling",
                options |-> Some(MqttOptions(robot_id, mqtt_host, mqtt_port)),
                polls |-> 0 ]]
        /\ frame_number' = [frame_number EXCEPT ![i] = NewCounter]
        /\ frame_number_lock' = [frame_number_lock EXCEPT ![i] = NoTask]
        /\ video_timestamp' = [video_timestamp EXCEPT ![i] = NewCounter]
        /\ video_timestamp_lock' = [video_timestamp_lock EXCEPT ![i] = NoTask]
        /\ inference_step' = [inference_step EXCEPT ![i] = NewCounter]
        /\ step_history' = [step_history EXCEPT ![i] = StepHistory0]
        /\ frame_history' = [frame_history EXCEPT ![i] = FrameHistory0]
        /\ local' = [local EXCEPT ![t] =
              [Local0 EXCEPT !.robot_id = robot_id,
                             !.telemetry = Some(Telemetry(i, robot_id, i, i, i))]]
    /\ Goto(t, "initialize_lock")
    /\ observed' = [observed EXCEPT ![t] = Started(None, TRUE)]
    /\ UNCHANGED << envVars, globalVars, handles, last_install >>

\* Line 62: TELEMETRY.lock().await
initialize_lock(t) ==
    /\ pc[t] = "initialize_lock"
    /\ LockFree(TELEMETRY_lock)
    /\ TELEMETRY_lock' = t
    /\ Goto(t, "initialize_install")
    /\ observed' = Step(t)
    /\ UNCHANGED << envVars, TELEMETRY, instanceVars, counterVars, handles, calls,
                    local, ret, last_install >>

\* Line 63: *global = Some(telemetry)
initialize_install(t) ==
    /\ pc[t] = "initialize_install"
    /\ TELEMETRY' = Install(TELEMETRY, Unwrap(local[t].telemetry))
    /\ last_install' = Some([ robot_id |-> local[t].robot_id,
                               telemetry |-> Unwrap(local[t].telemetry) ])
    /\ Goto(t, "initialize_return")
    /\ observed' = Step(t)
    /\ UNCHANGED << envVars, TELEMETRY_lock, instanceVars, counterVars, handles,
                    calls, local, ret >>

\* Lines 65-66: Ok(()), and the guard is dropped.
initialize_return(t) ==
    /\ pc[t] = "initialize_return"
    /\ TELEMETRY_lock' = DropGuard(TELEMETRY_lock)
    /\ Return(t, InitializeResult(eventloop[Unwrap(local[t].telemetry).client].options))
    /\ observed' = Step(t)
    /\ UNCHANGED << envVars, TELEMETRY, instanceVars, counterVars, handles, calls,
                    last_install >>

\* Whether poll() can succeed: the broker must be reachable.
Reachable(options) == options.host = "localhost"

\* Lines 47-51: the drain task, `while let Ok(n) = eventloop.poll().await`.
\* poll() can fail at any time, and always fails when the host is malformed;
\* the loop ends at the first failure.
drain_poll(i, ok) ==
    /\ eventloop[i].state = "polling"
    /\ eventloop[i].polls < MaxPolls
    /\ ok => Reachable(Unwrap(eventloop[i].options))
    /\ eventloop' = [eventloop EXCEPT ![i] =
          [@ EXCEPT !.state = IF ok THEN "polling" ELSE "ended",
                    !.polls = @ + 1]]
    /\ UNCHANGED << envVars, globalVars, allocated, counterVars, handles, calls,
                    pc, local, ret, observed, last_install >>

\* -------------------------------------------------------------------- get
\* Lines 69-71: the gate.
get_call(t) ==
    /\ Begin(t, "get", <<>>)
    /\ LET enabled == DerefEnabled(TELEMETRY_ENABLED, ENABLE_TELEMETRY) IN
        /\ TELEMETRY_ENABLED' = Some(enabled)
        /\ Goto(t, IF GateClosed(enabled) THEN "idle" ELSE "get_lock")
    /\ observed' = [observed EXCEPT ![t] = Started(None, TRUE)]
    /\ UNCHANGED << ENABLE_TELEMETRY, globalVars, instanceVars, counterVars,
                    handles, local, last_install >>

\* Line 72: TELEMETRY.lock().await
get_lock(t) ==
    /\ pc[t] = "get_lock"
    /\ LockFree(TELEMETRY_lock)
    /\ TELEMETRY_lock' = t
    /\ Goto(t, "get_clone")
    /\ observed' = Step(t)
    /\ UNCHANGED << envVars, TELEMETRY, instanceVars, counterVars, handles, calls,
                    local, ret, last_install >>

\* Option<Telemetry>::clone of the slot content.
CloneSlot(slot) == IF IsSome(slot) THEN Some(Clone(Unwrap(slot))) ELSE None

\* Line 72: .clone() of the guarded Option
get_clone(t) ==
    /\ pc[t] = "get_clone"
    /\ local' = [local EXCEPT ![t].telemetry = CloneSlot(TELEMETRY)]
    /\ Goto(t, "get_return")
    /\ observed' = Step(t)
    /\ UNCHANGED << envVars, globalVars, instanceVars, counterVars, handles, calls,
                    ret, last_install >>

\* The handles callers hold once `result` has been returned to one of them.
Given(result) == IF IsSome(result) THEN handles \cup {Unwrap(result)} ELSE handles

\* Line 73: the guard (a temporary of the tail expression) is dropped.
get_return(t) ==
    /\ pc[t] = "get_return"
    /\ TELEMETRY_lock' = DropGuard(TELEMETRY_lock)
    /\ handles' = Given(local[t].telemetry)
    /\ Return(t, local[t].telemetry)
    /\ observed' = Step(t)
    /\ UNCHANGED << envVars, TELEMETRY, instanceVars, counterVars, calls,
                    last_install >>

\* ---------------------------------------------------------------- try_get
\* Line 140: TELEMETRY.try_lock(); lines 142-144 when it fails.
try_get_call(t) ==
    /\ Begin(t, "try_get", <<>>)
    /\ TryLockReturns(TELEMETRY_lock)
    /\ IF LockFree(TELEMETRY_lock)
         THEN /\ TELEMETRY_lock' = t
              /\ Goto(t, "try_get_clone")
         ELSE /\ UNCHANGED << TELEMETRY_lock, pc >>
    /\ observed' = [observed EXCEPT ![t] = Started(TELEMETRY, LockFree(TELEMETRY_lock))]
    /\ UNCHANGED << envVars, TELEMETRY, instanceVars, counterVars, handles,
                    local, last_install >>

\* Line 141: guard.as_ref().cloned()
try_get_clone(t) ==
    /\ pc[t] = "try_get_clone"
    /\ local' = [local EXCEPT ![t].telemetry = CloneSlot(TELEMETRY)]
    /\ Goto(t, "try_get_return")
    /\ observed' = Step(t)
    /\ UNCHANGED << envVars, globalVars, instanceVars, counterVars, handles, calls,
                    ret, last_install >>

\* Line 142: the guard goes out of scope.
try_get_return(t) ==
    /\ pc[t] = "try_get_return"
    /\ TELEMETRY_lock' = DropGuard(TELEMETRY_lock)
    /\ handles' = Given(local[t].telemetry)
    /\ Return(t, local[t].telemetry)
    /\ observed' = Step(t)
    /\ UNCHANGED << envVars, TELEMETRY, instanceVars, counterVars, calls,
                    last_install >>

\* --------------------------------------------------------------- counters
\* Arithmetic of the scaled-down u64.
\* An addition that is applied twice.
AddTwice(v, k) == (v + 2 * k) % (U64Max + 1)

WrappingAdd(v, k) == (v + k) % (U64Max + 1)
Overflows(v, k) == v + k > U64Max

\* Labels at which a task is inside a counter operation (holding its lock).
CounterLabels ==
    { "update_frame_number_write", "update_frame_number_drop",
      "update_video_timestamp_write", "update_video_timestamp_drop",
      "increment_frame_number_add", "increment_frame_number_drop",
      "get_frame_number_read", "get_frame_number_drop",
      "get_video_timestamp_read", "get_video_timestamp_drop" }

Self(t) == Unwrap(local[t].self)

SameInstance(a, b) ==
    \/ a.frame_number = b.frame_number
    \/ a.video_timestamp = b.video_timestamp
    \/ a.inference_step = b.inference_step

Publishing(u) == ret[u].fn = "publish" /\ pc[u] # "idle"

\* The values the counters of `self` hold now, added to those in `held`.
Holding(held, self) ==
    << held[1] \cup {frame_number[self.frame_number]},
       held[2] \cup {video_timestamp[self.video_timestamp]},
       held[3] \cup {inference_step[self.inference_step]} >>

\* The history after a counter step of task t on `self`: t's own entry becomes
\* `mine`, and every other task's publish on the same instance is marked as
\* overlapped by a counter operation and notes the values the counters hold
\* before the step.
Touch(t, self, mine) ==
    [u \in Tasks |->
        IF u = t THEN mine
        ELSE IF Publishing(u) /\ SameInstance(Self(u), self)
          THEN [observed[u] EXCEPT !.undisturbed = FALSE,
                                   !.held = Holding(@, Self(u))]
          ELSE observed[u]]

\* The history of task t's call after one more step of it; a publish notes
\* the values the counters hold before the step.
More(t) ==
    [observed[t] EXCEPT !.steps = @ + 1,
                        !.held = IF Publishing(t) THEN Holding(@, Self(t)) ELSE @]

\* Lines 93-94: update_frame_number, self.frame_number.try_lock()
update_frame_number_call(t, self, n) ==
    /\ Begin(t, "update_frame_number", <<self, n>>)
    /\ TryLockReturns(frame_number_lock[self.frame_number])
    /\ IF LockFree(frame_number_lock[self.frame_number])
         THEN /\ frame_number_lock' = [frame_number_lock EXCEPT ![self.frame_number] = t]
              /\ local' = [local EXCEPT ![t] = [Local0 EXCEPT !.self = Some(self), !.n = n]]
              /\ Goto(t, "update_frame_number_write")
         ELSE /\ UNCHANGED << frame_number_lock, local, pc >>
    /\ observed' = Touch(t, self,
          Started(frame_number[self.frame_number], LockFree(frame_number_lock[self.frame_number])))
    /\ UNCHANGED << envVars, globalVars, instanceVars, frame_number, frame_history, videoVars,
                    stepVars, handles, last_install >>

\* An assignment through the guard that is lost.
AssignLost(old, new) == old

\* The value `*guard = new` leaves in the cell.
Assign(old, new) == new

\* Line 95: *guard = new_frame_number
update_frame_number_write(t) ==
    /\ pc[t] = "update_frame_number_write"
    /\ frame_number' = [frame_number EXCEPT ![Self(t).frame_number] = Assign(@, local[t].n)]
    /\ frame_history' = [frame_history EXCEPT ![Self(t).frame_number] =
          [ stored |-> frame_number'[Self(t).frame_number], tried |-> 0, added |-> 0 ]]
    /\ Goto(t, "update_frame_number_drop")
    /\ observed' = Touch(t, Self(t), More(t))
    /\ UNCHANGED << envVars, globalVars, instanceVars, frame_number_lock, videoVars,
                    stepVars, handles, calls, local, ret, last_install >>

\* Line 96: the guard is dropped.
update_frame_number_drop(t) ==
    /\ pc[t] = "update_frame_number_drop"
    /\ frame_number_lock' = [frame_number_lock EXCEPT ![Self(t).frame_number] = NoTask]
    /\ Return(t, None)
    /\ observed' = Touch(t, Self(t), More(t))
    /\ UNCHANGED << envVars, globalVars, instanceVars, frame_number, frame_history, videoVars,
                    stepVars, handles, calls, last_install >>

\* Lines 99-100: update_video_timestamp, self.video_timestamp.try_lock()
update_video_timestamp_call(t, self, n) ==
    /\ Begin(t, "update_video_timestamp", <<self, n>>)
    /\ TryLockReturns(video_timestamp_lock[self.video_timestamp])
    /\ IF LockFree(video_timestamp_lock[self.video_timestamp])
         THEN /\ video_timestamp_lock' =
                    [video_timestamp_lock EXCEPT ![self.video_timestamp] = t]
              /\ local' = [local EXCEPT ![t] = [Local0 EXCEPT !.self = Some(self), !.n = n]]
              /\ Goto(t, "update_video_timestamp_write")
         ELSE /\ UNCHANGED << video_timestamp_lock, local, pc >>
    /\ observed' = Touch(t, self,
          Started(video_timestamp[self.video_timestamp], LockFree(video_timestamp_lock[self.video_timestamp])))
    /\ UNCHANGED << envVars, globalVars, instanceVars, frameVars, video_timestamp,
                    stepVars, handles, last_install >>

\* Line 101: *guard = new_video_timestamp
update_video_timestamp_write(t) ==
    /\ pc[t] = "update_video_timestamp_write"
    /\ video_timestamp' =
          [video_timestamp EXCEPT ![Self(t).video_timestamp] = Assign(@, local[t].n)]
    /\ Goto(t, "update_video_timestamp_drop")
    /\ observed' = Touch(t, Self(t), More(t))
    /\ UNCHANGED << envVars, globalVars, instanceVars, frameVars, video_timestamp_lock,
                    stepVars, handles, calls, local, ret, last_install >>

\* Line 102: the guard is dropped.
update_video_timestamp_drop(t) ==
    /\ pc[t] = "update_video_timestamp_drop"
    /\ video_timestamp_lock' =
          [video_timestamp_lock EXCEPT ![Self(t).video_timestamp] = NoTask]
    /\ Return(t, None)
    /\ observed' = Touch(t, Self(t), More(t))
    /\ UNCHANGED << envVars, globalVars, instanceVars, frameVars, video_timestamp,
                    stepVars, handles, calls, last_install >>

\* A reader whose fallback is the largest value (unwrap_or(u64::MAX)).
ReadOrMax(locked, value) == IF locked THEN value ELSE U64Max

\* A reader that returns the stored value whether or not it got the lock.
ReadAnyway(locked, value) == value

\* The value a best-effort reader returns: `.map(|guard| *guard).unwrap_or(0)`.
\* `locked` is whether try_lock() gave the guard, `value` the guarded u64.
ReadOrZero(locked, value) == IF locked THEN value ELSE 0

\* Lines 105-107: get_frame_number, self.frame_number.try_lock();
\* line 109 when it fails.
get_frame_number_call(t, self) ==
    /\ BeginCall(t)
    /\ TryLockReturns(frame_number_lock[self.frame_number])
    /\ IF LockFree(frame_number_lock[self.frame_number])
         THEN /\ frame_number_lock' = [frame_number_lock EXCEPT ![self.frame_number] = t]
              /\ local' = [local EXCEPT ![t] = [Local0 EXCEPT !.self = Some(self)]]
              /\ Goto(t, "get_frame_number_read")
              /\ Returned(t, "get_frame_number", <<self>>, None)
         ELSE /\ UNCHANGED << frame_number_lock, pc, local >>
              /\ Returned(t, "get_frame_number", <<self>>,
                          ReadOrZero(FALSE, frame_number[self.frame_number]))
    /\ observed' = Touch(t, self,
          Started(frame_number[self.frame_number], LockFree(frame_number_lock[self.frame_number])))
    /\ UNCHANGED << envVars, globalVars, instanceVars, frame_number, frame_history, videoVars,
                    stepVars, handles, last_install >>

\* Line 108: .map(|guard| *guard)
get_frame_number_read(t) ==
    /\ pc[t] = "get_frame_number_read"
    /\ local' = [local EXCEPT ![t].fn = ReadOrZero(TRUE, frame_number[Self(t).frame_number])]
    /\ Goto(t, "get_frame_number_drop")
    /\ observed' = Touch(t, Self(t), More(t))
    /\ UNCHANGED << envVars, globalVars, instanceVars, frameVars, videoVars,
                    stepVars, handles, calls, ret, last_install >>

\* Line 108: the guard is dropped when the closure returns.  The value goes
\* to the caller, which is publish (line 77) when `caller` says so.
get_frame_number_drop(t) ==
    /\ pc[t] = "get_frame_number_drop"
    /\ frame_number_lock' = [frame_number_lock EXCEPT ![Self(t).frame_number] = NoTask]
    /\ IF local[t].caller = "publish"
         THEN /\ Goto(t, "publish_video_timestamp")
              /\ UNCHANGED << local, ret >>
         ELSE Return(t, local[t].fn)
    /\ observed' = Touch(t, Self(t), More(t))
    /\ UNCHANGED << envVars, globalVars, instanceVars, frame_number, frame_history, videoVars,
                    stepVars, handles, calls, last_install >>

\* Lines 112-113: increment_frame_number, self.frame_number.try_lock()
increment_frame_number_call(t, self) ==
    /\ Begin(t, "increment_frame_number", <<self>>)
    /\ TryLockReturns(frame_number_lock[self.frame_number])
    /\ IF LockFree(frame_number_lock[self.frame_number])
         THEN /\ frame_number_lock' = [frame_number_lock EXCEPT ![self.frame_number] = t]
              /\ local' = [local EXCEPT ![t] = [Local0 EXCEPT !.self = Some(self)]]
              /\ Goto(t, "increment_frame_number_add")
         ELSE /\ UNCHANGED << frame_number_lock, local, pc >>
    /\ frame_history' = [frame_history EXCEPT ![self.frame_number].tried = @ + 1]
    /\ observed' = Touch(t, self,
          Started(frame_number[self.frame_number], LockFree(frame_number_lock[self.frame_number])))
    /\ UNCHANGED << envVars, globalVars, instanceVars, frame_number, videoVars,
                    stepVars, handles, last_install >>

\* Line 114: *guard += 1.  At u64::MAX a build with overflow checks panics
\* (the guard is dropped while unwinding and the value is left as it was), and
\* a build without them wraps to 0.
increment_frame_number_add(t, overflow_checks) ==
    /\ pc[t] = "increment_frame_number_add"
    /\ LET c == Self(t).frame_number IN
        IF Overflows(frame_number[c], 1) /\ overflow_checks
          THEN /\ frame_number_lock' = [frame_number_lock EXCEPT ![c] = NoTask]
               /\ Return(t, "panic")
               /\ UNCHANGED << frame_number, frame_history >>
          ELSE /\ frame_number' = [frame_number EXCEPT ![c] = WrappingAdd(@, 1)]
               /\ frame_history' = [frame_history EXCEPT ![c].added = @ + 1]
               /\ Goto(t, "increment_frame_number_drop")
               /\ UNCHANGED << frame_number_lock, local, ret >>
    /\ observed' = Touch(t, Self(t), More(t))
    /\ UNCHANGED << envVars, globalVars, instanceVars, videoVars, stepVars,
                    handles, calls, last_install >>

\* Line 115: the guard is dropped.
increment_frame_number_drop(t) ==
    /\ pc[t] = "increment_frame_number_drop"
    /\ frame_number_lock' = [frame_number_lock EXCEPT ![Self(t).frame_number] = NoTask]
    /\ Return(t, None)
    /\ observed' = Touch(t, Self(t), More(t))
    /\ UNCHANGED << envVars, globalVars, instanceVars, frame_number, frame_history, videoVars,
                    stepVars, handles, calls, last_install >>

\* Lines 118-120: get_video_timestamp, self.video_timestamp.try_lock();
\* line 122 when it fails.
get_video_timestamp_call(t, self) ==
    /\ BeginCall(t)
    /\ TryLockReturns(video_timestamp_lock[self.video_timestamp])
    /\ IF LockFree(video_timestamp_lock[self.video_timestamp])
         THEN /\ video_timestamp_lock' =
                    [video_timestamp_lock EXCEPT ![self.video_timestamp] = t]
              /\ local' = [local EXCEPT ![t] = [Local0 EXCEPT !.self = Some(self)]]
              /\ Goto(t, "get_video_timestamp_read")
              /\ Returned(t, "get_video_timestamp", <<self>>, None)
         ELSE /\ UNCHANGED << video_timestamp_lock, pc, local >>
              /\ Returned(t, "get_video_timestamp", <<self>>,
                          ReadOrZero(FALSE, video_timestamp[self.video_timestamp]))
    /\ observed' = Touch(t, self,
          Started(video_timestamp[self.video_timestamp], LockFree(video_timestamp_lock[self.video_timestamp])))
    /\ UNCHANGED << envVars, globalVars, instanceVars, frameVars, video_timestamp,
                    stepVars, handles, last_install >>

\* Line 121: .map(|guard| *guard)
get_video_timestamp_read(t) ==
    /\ pc[t] = "get_video_timestamp_read"
    /\ local' = [local EXCEPT ![t].vt =
          ReadOrZero(TRUE, video_timestamp[Self(t).video_timestamp])]
    /\ Goto(t, "get_video_timestamp_drop")
    /\ observed' = Touch(t, Self(t), More(t))
    /\ UNCHANGED << envVars, globalVars, instanceVars, frameVars, videoVars,
                    stepVars, handles, calls, ret, last_install >>

\* Line 121: the guard is dropped when the closure returns.  The value goes
\* to the caller, which is publish (line 78) when `caller` says so.
get_video_timestamp_drop(t) ==
    /\ pc[t] = "get_video_timestamp_drop"
    /\ video_timestamp_lock' =
          [video_timestamp_lock EXCEPT ![Self(t).video_timestamp] = NoTask]
    /\ IF local[t].caller = "publish"
         THEN /\ Goto(t, "publish_inference_step")
              /\ UNCHANGED << local, ret >>
         ELSE Return(t, local[t].vt)
    /\ observed' = Touch(t, Self(t), More(t))
    /\ UNCHANGED << envVars, globalVars, instanceVars, frameVars, video_timestamp,
                    stepVars, handles, calls, last_install >>

\* Lines 125-128: self.inference_step.store(new, SeqCst)
update_inference_step(t, self, n) ==
    /\ Call(t, "update_inference_step", <<self, n>>, None)
    /\ inference_step' = [inference_step EXCEPT ![self.inference_step] = Assign(@, n)]
    /\ step_history' = [step_history EXCEPT ![self.inference_step] =
          [stored |-> n, added |-> 0]]
    /\ observed' = Touch(t, self, Started(inference_step[self.inference_step], TRUE))
    /\ UNCHANGED << envVars, globalVars, instanceVars, frameVars, videoVars,
                    handles, last_install >>

\* An increment that is dropped while a Mutex of the instance is held.
FetchAddUnlessBusy(v, frame_busy, video_busy) ==
    IF frame_busy \/ video_busy THEN v ELSE WrappingAdd(v, 1)

\* The value fetch_add(1) leaves in the AtomicU64 that holds v: the addition
\* wraps, and does not depend on any lock (`frame_busy`, `video_busy`: whether
\* the instance's two Mutexes are held).
FetchAdd(v, frame_busy, video_busy) == WrappingAdd(v, 1)

\* Lines 130-132: self.inference_step.fetch_add(1, SeqCst)
increment_inference_step(t, self) ==
    /\ Call(t, "increment_inference_step", <<self>>, None)
    /\ inference_step' = [inference_step EXCEPT ![self.inference_step] =
          FetchAdd(@, ~LockFree(frame_number_lock[self.frame_number]),
                      ~LockFree(video_timestamp_lock[self.video_timestamp]))]
    /\ step_history' = [step_history EXCEPT ![self.inference_step].added = @ + 1]
    /\ observed' = Touch(t, self,
          Started(inference_step[self.inference_step],
                  /\ LockFree(frame_number_lock[self.frame_number])
                  /\ LockFree(video_timestamp_lock[self.video_timestamp])))
    /\ UNCHANGED << envVars, globalVars, instanceVars, frameVars, videoVars,
                    handles, last_install >>

\* Lines 134-136: self.inference_step.load(SeqCst)
get_inference_step(t, self) ==
    /\ Call(t, "get_inference_step", <<self>>, inference_step[self.inference_step])
    /\ observed' = Touch(t, self, Started(inference_step[self.inference_step], TRUE))
    /\ UNCHANGED << envVars, globalVars, instanceVars, counterVars, handles,
                    last_install >>

Counters(t) ==
    \/ \E self \in handles, n \in UpdateValues : update_frame_number_call(t, self, n)
    \/ update_frame_number_write(t)
    \/ update_frame_number_drop(t)
    \/ \E self \in handles, n \in UpdateValues : update_video_timestamp_call(t, self, n)
    \/ update_video_timestamp_write(t)
    \/ update_video_timestamp_drop(t)
    \/ \E self \in handles : get_frame_number_call(t, self)
    \/ get_frame_number_read(t)
    \/ get_frame_number_drop(t)
    \/ \E self \in handles : increment_frame_number_call(t, self)
    \/ \E checks \in BOOLEAN : increment_frame_number_add(t, checks)
    \/ increment_frame_number_drop(t)
    \/ \E self \in handles : get_video_timestamp_call(t, self)
    \/ get_video_timestamp_read(t)
    \/ get_video_timestamp_drop(t)
    \/ \E self \in handles, n \in UpdateValues : update_inference_step(t, self, n)
    \/ \E self \in handles : increment_inference_step(t, self)
    \/ \E self \in handles : get_inference_step(t, self)

\* ---------------------------------------------------------------- publish
\* Decimal text of a u64, as serde_json writes it.
Digit(d) ==
    CASE d = 0 -> "0" [] d = 1 -> "1" [] d = 2 -> "2" [] d = 3 -> "3"
      [] d = 4 -> "4" [] d = 5 -> "5" [] d = 6 -> "6" [] d = 7 -> "7"
      [] d = 8 -> "8" [] d = 9 -> "9"

RECURSIVE Decimal(_)
Decimal(n) == IF n < 10 THEN Digit(n) ELSE Decimal(n \div 10) \o Digit(n % 10)

\* struct TelemetryPayload<T>, lines 76-81.
TelemetryPayload(fn, vt, st, data) ==
    [ frame_number |-> fn, video_timestamp |-> vt, inference_step |-> st,
      data |-> data ]

\* A serializer that writes null for a value it cannot serialize.
to_string_lossy(p) ==
    Some("{\"frame_number\":" \o Decimal(p.frame_number)
         \o ",\"video_timestamp\":" \o Decimal(p.video_timestamp)
         \o ",\"inference_step\":" \o Decimal(p.inference_step)
         \o ",\"data\":" \o (IF p.data.serializable THEN p.data.data ELSE "null")
         \o "}")

\* serde_json::to_string of the derived Serialize: the fields in declaration
\* order, compact; an error of T's Serialize is the error of the whole.
to_string(p) ==
    IF p.data.serializable
      THEN Some("{\"frame_number\":" \o Decimal(p.frame_number)
                \o ",\"video_timestamp\":" \o Decimal(p.video_timestamp)
                \o ",\"inference_step\":" \o Decimal(p.inference_step)
                \o ",\"data\":" \o p.data.data \o "}")
      ELSE None

\* Line 84: format!("robots/{}/{}", self.robot_id, topic)
FullTopic(robot_id, topic) == "robots/" \o robot_id \o "/" \o topic

\* Line 87: the arguments of AsyncClient::publish.
Request(full_topic, payload) ==
    [ topic |-> full_topic, qos |-> "AtLeastOnce", retain |-> FALSE,
      payload |-> payload ]

\* Whether another task is inside a counter operation on the instance of `self`.
Overlapped(t, self) ==
    \E u \in Tasks \ {t} :
        /\ pc[u] \in CounterLabels \cup {"publish_video_timestamp", "publish_inference_step"}
        /\ SameInstance(Self(u), self)

\* Lines 75-77: publish begins with self.get_frame_number(), whose first step
\* is the try_lock of line 107.
publish_call(t, self, topic, payload) ==
    /\ Begin(t, "publish", <<self, topic, payload>>)
    /\ TryLockReturns(frame_number_lock[self.frame_number])
    /\ LET mine == [Local0 EXCEPT !.self = Some(self), !.topic = topic,
                                  !.payload = Some(payload), !.caller = "publish"]
       IN IF LockFree(frame_number_lock[self.frame_number])
            THEN /\ frame_number_lock' = [frame_number_lock EXCEPT ![self.frame_number] = t]
                 /\ local' = [local EXCEPT ![t] = mine]
                 /\ Goto(t, "get_frame_number_read")
            ELSE /\ UNCHANGED frame_number_lock
                 /\ local' = [local EXCEPT ![t] =
                       [mine EXCEPT !.fn = ReadOrZero(FALSE, frame_number[self.frame_number])]]
                 /\ Goto(t, "publish_video_timestamp")
    /\ observed' = Touch(t, self,
          [ snapshot |-> << frame_number[self.frame_number],
                            video_timestamp[self.video_timestamp],
                            inference_step[self.inference_step] >>,
            free |-> LockFree(frame_number_lock[self.frame_number]),
            undisturbed |-> ~Overlapped(t, self),
            requests |-> <<>>,
            steps |-> 1,
            held |-> Holding(Observed0.held, self) ])
    /\ UNCHANGED << envVars, globalVars, instanceVars, frame_number, frame_history, videoVars,
                    stepVars, handles, last_install >>

\* Line 78: self.get_video_timestamp(), the try_lock of line 120.
publish_video_timestamp(t) ==
    /\ pc[t] = "publish_video_timestamp"
    /\ TryLockReturns(video_timestamp_lock[Self(t).video_timestamp])
    /\ IF LockFree(video_timestamp_lock[Self(t).video_timestamp])
         THEN /\ video_timestamp_lock' =
                    [video_timestamp_lock EXCEPT ![Self(t).video_timestamp] = t]
              /\ Goto(t, "get_video_timestamp_read")
              /\ UNCHANGED local
         ELSE /\ UNCHANGED video_timestamp_lock
              /\ local' = [local EXCEPT ![t].vt =
                    ReadOrZero(FALSE, video_timestamp[Self(t).video_timestamp])]
              /\ Goto(t, "publish_inference_step")
    /\ observed' = Touch(t, Self(t), More(t))
    /\ UNCHANGED << envVars, globalVars, instanceVars, frameVars, video_timestamp,
                    stepVars, handles, calls, ret, last_install >>

\* Line 79: self.get_inference_step(), the load of line 135.
publish_inference_step(t) ==
    /\ pc[t] = "publish_inference_step"
    /\ local' = [local EXCEPT ![t].st = inference_step[Self(t).inference_step]]
    /\ Goto(t, "publish_serialize")
    /\ observed' = Touch(t, Self(t), More(t))
    /\ UNCHANGED << envVars, globalVars, instanceVars, counterVars, handles, calls,
                    ret, last_install >>

\* An envelope with frame number and video timestamp exchanged.
EnvelopeSwapped(fn, vt, st, data) == TelemetryPayload(vt, fn, st, data)

\* The envelope publish builds from what its three readers returned.
Envelope(fn, vt, st, data) == TelemetryPayload(fn, vt, st, data)

\* Lines 76-83: the envelope and its serialization; `?` returns the error.
publish_serialize(t) ==
    /\ pc[t] = "publish_serialize"
    /\ LET text == to_string(Envelope(local[t].fn, local[t].vt, local[t].st,
                                      Unwrap(local[t].payload)))
       IN IF IsSome(text)
            THEN /\ local' = [local EXCEPT ![t].body = text]
                 /\ Goto(t, "publish_send")
                 /\ UNCHANGED ret
            ELSE Return(t, Err("serialize"))
    /\ observed' = [observed EXCEPT ![t] = More(t)]
    /\ UNCHANGED << envVars, globalVars, instanceVars, counterVars, handles, calls,
                    last_install >>

\* A publish that swallows the client's error.
PublishResultIgnored(ok) == Ok(Unit)

\* What publish returns for the outcome of AsyncClient::publish(..).await.
PublishResult(ok) == IF ok THEN Ok(Unit) ELSE Err("client")

\* Lines 84-90: the full topic, and one call of AsyncClient::publish, which
\* accepts the request (ok) or fails.
publish_send(t, ok) ==
    /\ pc[t] = "publish_send"
    /\ observed' = [observed EXCEPT ![t] =
          [More(t) EXCEPT !.requests = Append(@,
              [ request |-> Request(FullTopic(Self(t).robot_id, local[t].topic),
                                    Unwrap(local[t].body)),
                accepted |-> ok ])]]
    /\ Return(t, PublishResult(ok))
    /\ UNCHANGED << envVars, globalVars, instanceVars, counterVars, handles, calls,
                    last_install >>

Publish(t) ==
    \/ \E self \in handles, topic \in Topics, payload \in Payloads :
          publish_call(t, self, topic, payload)
    \/ get_frame_number_read(t)
    \/ get_frame_number_drop(t)
    \/ publish_video_timestamp(t)
    \/ get_video_timestamp_read(t)
    \/ get_video_timestamp_drop(t)
    \/ publish_inference_step(t)
    \/ publish_serialize(t)
    \/ \E ok \in BOOLEAN : publish_send(t, ok)

Lifecycle(t, robots, hosts) ==
    \/ \E r \in robots, h \in hosts, p \in Ports : initialize_call(t, r, h, p)
    \/ initialize_lock(t)
    \/ initialize_install(t)
    \/ initialize_return(t)
    \/ get_call(t)
    \/ get_lock(t)
    \/ get_clone(t)
    \/ get_return(t)
    \/ try_get_call(t)
    \/ try_get_clone(t)
    \/ try_get_return(t)

\* The slot and its accessors, with telemetry enabled or disabled at start.
NextSlot == \E t \in Tasks : Lifecycle(t, RobotIds, {"localhost"})

SpecSlot == InitEnv({None, Some(<<"F", "a", "l", "s", "e">>)}) /\ [][NextSlot]_vars

\* One robot's instance, a handle to it from try_get, and the counter
\* operations on that handle.
Acquire(t) ==
    \/ initialize_call(t, "r1", "localhost", 1883)
    \/ initialize_lock(t)
    \/ initialize_install(t)
    \/ initialize_return(t)
    \/ try_get_call(t)
    \/ try_get_clone(t)
    \/ try_get_return(t)

NextCounters == \E t \in Tasks : Acquire(t) \/ Counters(t)

SpecCounters == InitEnv({None}) /\ [][NextCounters]_vars

\* A single initialize for the whole run, and handles to its instance.
AcquireOnce(t) ==
    \/ allocated = 0 /\ initialize_call(t, "r1", "localhost", 1883)
    \/ initialize_lock(t)
    \/ initialize_install(t)
    \/ initialize_return(t)
    \/ try_get_call(t)
    \/ try_get_clone(t)
    \/ try_get_return(t)

\* The three setters, called with the values of `values`.
SettersOf(t, values) ==
    \/ \E self \in handles, n \in values : update_frame_number_call(t, self, n)
    \/ update_frame_number_write(t)
    \/ update_frame_number_drop(t)
    \/ \E self \in handles, n \in values : update_video_timestamp_call(t, self, n)
    \/ update_video_timestamp_write(t)
    \/ update_video_timestamp_drop(t)
    \/ \E self \in handles, n \in values : update_inference_step(t, self, n)

Setters(t) == SettersOf(t, UpdateValues)

\* One robot's instance, a handle to it, the three setters, and publish.

NextPublish == \E t \in Tasks : AcquireOnce(t) \/ SettersOf(t, {U64Max}) \/ Publish(t)

SpecPublish == InitEnv({None}) /\ [][NextPublish]_vars

\* The whole program: every task may call every function, the drain tasks
\* poll, and the environment may change.
Next ==
    \/ \E t \in Tasks : Lifecycle(t, RobotIds, Hosts) \/ Counters(t) \/ Publish(t)
    \/ \E i \in Instances, ok \in BOOLEAN : drain_poll(i, ok)
    \/ \E v \in EnvValues : set_var(v)

Spec == Init /\ [][Next]_vars

\* The client is built and the drain task polls: initialize with every host.
Connect(t) ==
    \/ \E r \in RobotIds, h \in Hosts, p \in Ports : initialize_call(t, r, h, p)
    \/ initialize_lock(t)
    \/ initialize_install(t)
    \/ initialize_return(t)

NextConnect ==
    \/ \E t \in Tasks : Connect(t)
    \/ \E i \in Instances, ok \in BOOLEAN : drain_poll(i, ok)

SpecConnect == InitEnv({None}) /\ [][NextConnect]_vars

\* The toggle: the setting in every spelling, changes of the setting, one
\* robot's initialize, and get().
Toggle(t) ==
    \/ initialize_call(t, "r1", "localhost", 1883)
    \/ initialize_lock(t)
    \/ initialize_install(t)
    \/ initialize_return(t)
    \/ get_call(t)
    \/ get_lock(t)
    \/ get_clone(t)
    \/ get_return(t)

NextToggle ==
    \/ \E t \in Tasks : Toggle(t)
    \/ \E v \in EnvValues : set_var(v)

SpecToggle == Init /\ [][NextToggle]_vars

\* One robot's instance, a handle to it, the three setters, and publish of a
\* serializable payload that the client accepts.
Snapshot(t) ==
    \/ \E self \in handles, topic \in Topics :
          \E payload \in {p \in Payloads : p.serializable} :
              publish_call(t, self, topic, payload)
    \/ get_frame_number_read(t)
    \/ get_frame_number_drop(t)
    \/ publish_video_timestamp(t)
    \/ get_video_timestamp_read(t)
    \/ get_video_timestamp_drop(t)
    \/ publish_inference_step(t)
    \/ publish_serialize(t)
    \/ publish_send(t, TRUE)

NextSnapshot == \E t \in Tasks : AcquireOnce(t) \/ Setters(t) \/ Snapshot(t)

SpecSnapshot == InitEnv({None}) /\ [][NextSnapshot]_vars

\* The frame number under increments alone.  One instance is installed, the
\* frame number is given a starting value with update_frame_number, and from
\* the first increment_frame_number on no other operation begins on the
\* counter; an increment does not begin while a store is still running.
FrameStoreLabels == { "update_frame_number_write", "update_frame_number_drop" }

StoreFrame(t) ==
    \/ \E self \in handles, n \in UpdateValues :
          /\ frame_history[self.frame_number].tried = 0
          /\ update_frame_number_call(t, self, n)
    \/ update_frame_number_write(t)
    \/ update_frame_number_drop(t)

IncrementFrame(t) ==
    \/ \E self \in handles :
          /\ \A u \in Tasks : pc[u] \notin FrameStoreLabels
          /\ increment_frame_number_call(t, self)
    \/ \E checks \in BOOLEAN : increment_frame_number_add(t, checks)
    \/ increment_frame_number_drop(t)

NextIncrement == \E t \in Tasks : AcquireOnce(t) \/ StoreFrame(t) \/ IncrementFrame(t)

SpecIncrement == InitEnv({None}) /\ [][NextIncrement]_vars

\* The slot under fair scheduling.  A task that has begun a call goes on
\* running it (the runtime polls every task that can make progress), and a
\* task waiting in lock().await gets the lock if it becomes free again and
\* again (tokio's Mutex hands the lock to its waiters in FIFO order).  No task
\* is obliged to begin a call.  Each of these steps changes pc.
Proceeds(t) ==
    \/ initialize_install(t)
    \/ initialize_return(t)
    \/ get_clone(t)
    \/ get_return(t)
    \/ try_get_clone(t)
    \/ try_get_return(t)

Acquires(t) == initialize_lock(t) \/ get_lock(t)

NextSlotFair == \E t \in Tasks : Lifecycle(t, {"r1"}, {"localhost"})

SpecSlotFair ==
    /\ InitEnv({None})
    /\ [][NextSlotFair]_vars
    /\ \A t \in Tasks : WF_pc(Proceeds(t)) /\ SF_pc(Acquires(t))

\* ================================================================= claims
Idle(t) == pc[t] = "idle"
Ran(t, fn) == ret[t].fn = fn /\ Idle(t)

\* C1: the slot holds at most one instance, and what get() is about to
\* return carries the robot identifier given to the initialize call that
\* wrote the slot last, never that of an earlier call.
C1_LastWriterWins ==
    /\ Len(TELEMETRY) <= 1
    /\ \A t \in Tasks :
          (pc[t] = "get_return" /\ IsSome(last_install)) =>
              /\ IsSome(local[t].telemetry)
              /\ Unwrap(local[t].telemetry).robot_id = Unwrap(last_install).robot_id

\* Two initialize calls with different identifiers have returned, and a get()
\* that came after them has returned the second identifier.
C1_Witness ==
    /\ allocated = 2
    /\ \A t \in Tasks : Idle(t)
    /\ Unwrap(eventloop[1].options).client_id # Unwrap(eventloop[2].options).client_id
    /\ IsSome(last_install)
    /\ Unwrap(last_install).telemetry.client = 2
    /\ \E t \in Tasks :
          /\ Ran(t, "get")
          /\ IsSome(ret[t].val)
          /\ Unwrap(ret[t].val).robot_id = Unwrap(last_install).robot_id

\* C2: with the toggle false, every get() returns None in its first step and
\* never holds the slot lock; a try_get() that found the lock free returns the
\* slot content whatever the toggle is.
C2_DisabledGate ==
    \A t \in Tasks :
        /\ (ret[t].fn = "get" /\ TELEMETRY_ENABLED = Some(FALSE)) =>
              /\ Idle(t)
              /\ ret[t].val = None
              /\ observed[t].steps = 1
              /\ TELEMETRY_lock # t
        /\ (Ran(t, "try_get") /\ observed[t].free) =>
              ret[t].val = observed[t].snapshot

\* Telemetry is disabled, an instance is installed, a get() has returned None
\* and a try_get() has returned the instance.
C2_Witness ==
    /\ TELEMETRY_ENABLED = Some(FALSE)
    /\ IsSome(TELEMETRY)
    /\ \E t, u \in Tasks :
          /\ Ran(t, "get") /\ ret[t].val = None
          /\ Ran(u, "try_get") /\ ret[u].val = TELEMETRY

\* C7: an initialize call whose host is malformed returns a failure.
C7_MalformedHostFails ==
    \A t \in Tasks :
        (Ran(t, "initialize") /\ ret[t].args[2] = "not a host") => ret[t].val # Ok(Unit)

\* C8: the slot is written by initialize only (it is empty exactly while no
\* initialize has written it, and holds what the last such call built), and
\* what an enabled get() is about to return is the slot content: None exactly
\* when the slot was never written, else a handle with the same identifier and
\* the same shared counters.
C8_GetReturnsSlot ==
    /\ IsSome(TELEMETRY) <=> IsSome(last_install)
    /\ IsSome(last_install) => TELEMETRY = Some(Unwrap(last_install).telemetry)
    /\ \A t \in Tasks :
          pc[t] = "get_return" =>
              /\ local[t].telemetry = TELEMETRY
              /\ local[t].telemetry = None <=> last_install = None

\* A get() has cloned an installed instance and is about to return it.
C8_Witness ==
    \E t \in Tasks :
        /\ pc[t] = "get_return"
        /\ TELEMETRY_ENABLED = Some(TRUE)
        /\ IsSome(local[t].telemetry)
        /\ Unwrap(local[t].telemetry).frame_number = Unwrap(TELEMETRY).frame_number

\* C9: try_get() can always take its first step; when the slot lock is held
\* it returns None in that step; when the lock is free it returns the slot
\* content (None if never initialized); the slot stays as it was throughout.
C9_TryGetNeverWaits ==
    \A t \in Tasks :
        /\ (Idle(t) /\ calls < MaxCalls) => ENABLED try_get_call(t)
        /\ ret[t].fn = "try_get" =>
              /\ ~observed[t].free =>
                    Idle(t) /\ ret[t].val = None /\ observed[t].steps = 1
              /\ (observed[t].free /\ Idle(t)) =>
                    ret[t].val = observed[t].snapshot /\ observed[t].steps = 3
              /\ ~Idle(t) =>
                    TELEMETRY = observed[t].snapshot /\ TELEMETRY_lock = t

\* An instance is installed, another call holds the slot lock, and a
\* try_get() has returned None at once.
C9_Witness ==
    \E t \in Tasks :
        /\ Ran(t, "try_get")
        /\ ~observed[t].free
        /\ IsSome(observed[t].snapshot)
        /\ ret[t].val = None
        /\ TELEMETRY_lock \notin {NoTask, t}

\* C3 (as claimed): after any number of increment_inference_step() calls
\* since the last store, the counter equals the stored value plus the number
\* of calls.
C3_ExactSum ==
    \A i \in 1..allocated :
        inference_step[i] = step_history[i].stored + step_history[i].added

\* C3 (amended): after any number of increment_inference_step() calls since
\* the last store, whatever locks were held meanwhile, the counter equals
\* the stored value plus the number of calls, modulo the width of a u64.
C3_ExactSumModulo ==
    \A i \in 1..allocated :
        inference_step[i] =
            WrappingAdd(step_history[i].stored, step_history[i].added)

\* Two tasks have each incremented the same instance once, and the counter
\* holds both increments.
C3_Witness ==
    \E t, u \in Tasks :
        /\ t # u
        /\ Ran(t, "increment_inference_step")
        /\ Ran(u, "increment_inference_step")
        /\ ret[t].args[1].inference_step = ret[u].args[1].inference_step
        /\ LET i == ret[t].args[1].inference_step IN
              /\ step_history[i].added = 2
              /\ inference_step[i] = WrappingAdd(step_history[i].stored, 2)

BestEffortWriters ==
    {"update_frame_number", "increment_frame_number", "update_video_timestamp"}

\* C4: update_frame_number, increment_frame_number and update_video_timestamp
\* never wait: an idle task can always take the first step of each, a task
\* inside one can always take its next step, a call takes at most three steps,
\* and a call that found the lock held has returned in its first step.
C4_WritersNeverWait ==
    \A t \in Tasks :
        /\ (Idle(t) /\ calls < MaxCalls) =>
              \A self \in handles, n \in UpdateValues :
                  /\ ENABLED update_frame_number_call(t, self, n)
                  /\ ENABLED increment_frame_number_call(t, self)
                  /\ ENABLED update_video_timestamp_call(t, self, n)
        /\ pc[t] = "update_frame_number_write" => ENABLED update_frame_number_write(t)
        /\ pc[t] = "update_frame_number_drop" => ENABLED update_frame_number_drop(t)
        /\ pc[t] = "increment_frame_number_add" =>
              ENABLED (\E checks \in BOOLEAN : increment_frame_number_add(t, checks))
        /\ pc[t] = "increment_frame_number_drop" => ENABLED increment_frame_number_drop(t)
        /\ pc[t] = "update_video_timestamp_write" =>
              ENABLED update_video_timestamp_write(t)
        /\ pc[t] = "update_video_timestamp_drop" => ENABLED update_video_timestamp_drop(t)
        /\ ret[t].fn \in BestEffortWriters =>
              /\ observed[t].steps <= 3
              /\ ~observed[t].free => Idle(t) /\ observed[t].steps = 1
              /\ (observed[t].free /\ Idle(t)) => observed[t].steps \in {2, 3}

\* One task holds the frame-number lock inside a writer while the writer of
\* another task on the same instance has found it held and returned.
C4_Witness ==
    \E t, u \in Tasks :
        /\ t # u
        /\ pc[t] \in {"update_frame_number_write", "update_frame_number_drop",
                      "increment_frame_number_add", "increment_frame_number_drop"}
        /\ Ran(u, "increment_frame_number") \/ Ran(u, "update_frame_number")
        /\ ~observed[u].free
        /\ ret[u].args[1].frame_number = Self(t).frame_number
        /\ frame_number_lock[Self(t).frame_number] = t

\* C10: get_frame_number() and get_video_timestamp() can always take their
\* first step; they return the value stored when they tried the lock if the
\* lock was free and 0 if it was held; while they run the counter keeps that
\* value.
C10_BestEffortReaders ==
    \A t \in Tasks :
        /\ (Idle(t) /\ calls < MaxCalls) =>
              \A self \in handles :
                  /\ ENABLED get_frame_number_call(t, self)
                  /\ ENABLED get_video_timestamp_call(t, self)
        /\ ret[t].fn = "get_frame_number" =>
              /\ Idle(t) =>
                    ret[t].val = IF observed[t].free THEN observed[t].snapshot ELSE 0
              /\ ~Idle(t) =>
                    /\ frame_number[Self(t).frame_number] = observed[t].snapshot
                    /\ ENABLED (get_frame_number_read(t) \/ get_frame_number_drop(t))
              /\ observed[t].steps <= 3
        /\ ret[t].fn = "get_video_timestamp" =>
              /\ Idle(t) =>
                    ret[t].val = IF observed[t].free THEN observed[t].snapshot ELSE 0
              /\ ~Idle(t) =>
                    /\ video_timestamp[Self(t).video_timestamp] = observed[t].snapshot
                    /\ ENABLED (get_video_timestamp_read(t) \/ get_video_timestamp_drop(t))
              /\ observed[t].steps <= 3

\* A get_frame_number() has found the lock held and returned 0 although the
\* counter held another value.
C10_Witness ==
    \E t \in Tasks :
        /\ Ran(t, "get_frame_number")
        /\ ~observed[t].free
        /\ observed[t].snapshot # 0
        /\ ret[t].val = 0

\* The message publish is to hand over for the call task t ran last, from the
\* arguments of the call and the counters as they were when it began.
Expected(t) ==
    LET self == ret[t].args[1]
        snap == observed[t].snapshot
    IN  [ topic |-> "robots/" \o self.robot_id \o "/" \o ret[t].args[2],
          qos |-> "AtLeastOnce",
          retain |-> FALSE,
          payload |-> "{\"frame_number\":" \o Decimal(snap[1])
                      \o ",\"video_timestamp\":" \o Decimal(snap[2])
                      \o ",\"inference_step\":" \o Decimal(snap[3])
                      \o ",\"data\":" \o ret[t].args[3].data \o "}" ]

\* The example of the specification: robot r1, topic joints, counters 5, 1000
\* and 3, payload {"a":1}.
PublishExample ==
    /\ FullTopic("r1", "joints") = "robots/r1/joints"
    /\ to_string(TelemetryPayload(5, 1000, 3, [data |-> "{\"a\":1}", serializable |-> TRUE]))
         = Some("{\"frame_number\":5,\"video_timestamp\":1000,\"inference_step\":3,\"data\":{\"a\":1}}")

\* C5: a publish of a serializable payload that no counter operation of
\* another task overlapped has called the client exactly once, with topic
\* robots/<id>/<topic>, at-least-once, not retained, and a body holding the
\* three counters as they were and the payload; on the values of the spec's
\* example the topic and body are the texts given there.
C5_PublishEnvelope ==
    /\ PublishExample
    /\ \A t \in Tasks :
          (Ran(t, "publish") /\ observed[t].undisturbed /\ ret[t].args[3].serializable) =>
              /\ Len(observed[t].requests) = 1
              /\ observed[t].requests[1].request = Expected(t)
              /\ observed[t].requests[1].accepted <=> ret[t].val = Ok(Unit)

\* A publish on an instance whose counters are not all zero has succeeded
\* with no other counter operation overlapping it.
C5_Witness ==
    \E t \in Tasks :
        /\ Ran(t, "publish")
        /\ ret[t].val = Ok(Unit)
        /\ observed[t].undisturbed
        /\ observed[t].snapshot # <<0, 0, 0>>
        /\ Len(observed[t].requests) = 1

\* C6: no step of publish changes a counter; publish calls the client at
\* most once; and it returns a failure when that call fails.
C6_PublishLeavesCounters ==
    [][ \A t \in Tasks :
          (ret'[t].fn = "publish" /\ pc'[t] # pc[t]) =>
              /\ frame_number' = frame_number
              /\ video_timestamp' = video_timestamp
              /\ inference_step' = inference_step
              /\ Len(observed'[t].requests) <= 1
              /\ pc[t] = "publish_send" =>
                    /\ Len(observed'[t].requests) = 1
                    /\ ~observed'[t].requests[1].accepted => ret'[t].val = Err("client")
      ]_vars

\* A publish whose client call failed has returned the failure, and the
\* counters (not all zero) are what they were when it began.
C6_Witness ==
    \E t \in Tasks :
        /\ Ran(t, "publish")
        /\ ret[t].val = Err("client")
        /\ Len(observed[t].requests) = 1
        /\ ~observed[t].requests[1].accepted
        /\ observed[t].snapshot # <<0, 0, 0>>
        /\ LET self == ret[t].args[1] IN
              observed[t].snapshot = << frame_number[self.frame_number],
                                        video_timestamp[self.video_timestamp],
                                        inference_step[self.inference_step] >>

UpdateWriters == {"update_frame_number", "update_video_timestamp"}

\* The Mutex-guarded counter a call of task t is about, and its lock.
CounterOf(t) ==
    IF ret[t].fn = "update_frame_number"
      THEN frame_number[ret[t].args[1].frame_number]
      ELSE video_timestamp[ret[t].args[1].video_timestamp]

HolderOf(t) ==
    IF ret[t].fn = "update_frame_number"
      THEN frame_number_lock[ret[t].args[1].frame_number]
      ELSE video_timestamp_lock[ret[t].args[1].video_timestamp]

\* C11: an update_frame_number(n) or update_video_timestamp(n) that found the
\* lock free holds it until the counter is n (the counter is n when the guard
\* is dropped); one that found the lock held has returned in its first step,
\* with no error and nothing left to do; the step in which a call tries the
\* lock never changes a Mutex-guarded counter, and such a counter changes only
\* in the write step of the task that holds its lock.
C11_UpdateOrDrop ==
    /\ [](\A t \in Tasks :
            ret[t].fn \in UpdateWriters =>
                /\ ~observed[t].free =>
                      /\ Idle(t)
                      /\ ret[t].val = None
                      /\ observed[t].steps = 1
                /\ (observed[t].free /\ ~Idle(t)) =>
                      /\ HolderOf(t) = t
                      /\ observed[t].steps = 1 => CounterOf(t) = observed[t].snapshot
                      /\ observed[t].steps = 2 => CounterOf(t) = ret[t].args[2]
                /\ (observed[t].free /\ Idle(t)) =>
                      /\ ret[t].val = None
                      /\ observed[t].steps = 3)
    /\ [][ /\ calls' # calls =>
               /\ frame_number' = frame_number
               /\ video_timestamp' = video_timestamp
           /\ \A i \in Instances :
               /\ frame_number'[i] # frame_number[i] =>
                     \E t \in Tasks :
                         /\ frame_number_lock[i] = t
                         /\ pc[t] \in {"update_frame_number_write",
                                       "increment_frame_number_add"}
                         /\ pc'[t] # pc[t]
               /\ video_timestamp'[i] # video_timestamp[i] =>
                     \E t \in Tasks :
                         /\ video_timestamp_lock[i] = t
                         /\ pc[t] = "update_video_timestamp_write"
                         /\ pc'[t] # pc[t]
          ]_vars

\* One task has written the value it was given and is about to drop the
\* frame-number guard, while the update of another task, with another value,
\* has found the lock held and has returned; the counter holds the first value.
C11_Witness ==
    \E t, u \in Tasks :
        /\ pc[u] = "update_frame_number_drop"
        /\ Ran(t, "update_frame_number")
        /\ ~observed[t].free
        /\ ret[t].args[1].frame_number = Self(u).frame_number
        /\ ret[t].args[2] # local[u].n
        /\ frame_number[Self(u).frame_number] = local[u].n
        /\ observed[t].snapshot # local[u].n

\* C12: a publish whose payload cannot be serialized never reaches the call
\* of the client (no request is made, and the call is never at the hand-off),
\* and once it has returned it has returned the serialization failure.
C12_UnserializableNotSent ==
    \A t \in Tasks :
        (ret[t].fn = "publish" /\ ~ret[t].args[3].serializable) =>
            /\ observed[t].requests = <<>>
            /\ pc[t] # "publish_send"
            /\ Idle(t) => ret[t].val = Err("serialize")

\* A publish of an unserializable payload has read the counters, returned
\* the failure and made no request.
C12_Witness ==
    \E t \in Tasks :
        /\ Ran(t, "publish")
        /\ ~ret[t].args[3].serializable
        /\ ret[t].val = Err("serialize")
        /\ observed[t].steps >= 4
        /\ observed[t].requests = <<>>

CounterOps ==
    { "update_frame_number", "increment_frame_number", "get_frame_number",
      "update_video_timestamp", "get_video_timestamp", "update_inference_step",
      "increment_inference_step", "get_inference_step", "publish" }

\* The three counters of a handle, and of the instance with cells i.
CountersOf(tel) ==
    << frame_number[tel.frame_number], video_timestamp[tel.video_timestamp],
       inference_step[tel.inference_step] >>

Cells(tel) == << tel.frame_number, tel.video_timestamp, tel.inference_step >>

Disjoint(a, b) == \A k \in 1..3 : Cells(a)[k] # Cells(b)[k]

\* Task t takes the step: it is the task whose call record, position or
\* snapshot the step changes.
Acts(t) ==
    \/ pc'[t] # pc[t]
    \/ ret'[t] # ret[t]
    \/ observed'[t].snapshot # observed[t].snapshot

\* C13: from its construction until initialize returns, the instance an
\* initialize call builds has all three counters at zero and its locks free,
\* whatever the counters of the instance in the slot, and shares no counter
\* with any handle given out before; and a step of a counter operation
\* through a handle changes no counter of an instance the handle does not
\* belong to, so what is written through an old handle does not show in the
\* new instance.
C13_FreshCounters ==
    /\ [](\A t \in Tasks :
            ret[t].fn = "initialize" /\ ~Idle(t) =>
                LET new == Unwrap(local[t].telemetry) IN
                    /\ CountersOf(new) = <<0, 0, 0>>
                    /\ frame_number_lock[new.frame_number] = NoTask
                    /\ video_timestamp_lock[new.video_timestamp] = NoTask
                    /\ \A h \in handles : Disjoint(h, new)
                    /\ (pc[t] # "initialize_return" /\ IsSome(TELEMETRY)) =>
                          Disjoint(Unwrap(TELEMETRY), new)
                    /\ pc[t] = "initialize_return" => TELEMETRY = Some(new))
    /\ [][ \A t \in Tasks :
              (Acts(t) /\ ret'[t].fn \in CounterOps) =>
                  \A i \in Instances :
                      i \notin {ret'[t].args[1].frame_number,
                                ret'[t].args[1].video_timestamp,
                                ret'[t].args[1].inference_step} =>
                          /\ frame_number'[i] = frame_number[i]
                          /\ video_timestamp'[i] = video_timestamp[i]
                          /\ inference_step'[i] = inference_step[i]
          ]_vars

\* A second initialize has installed its instance, whose counters are zero,
\* while a handle to the first instance is still held and the first
\* instance's inference step, written through that handle, is not zero.
C13_Witness ==
    /\ IsSome(TELEMETRY)
    /\ CountersOf(Unwrap(TELEMETRY)) = <<0, 0, 0>>
    /\ \E t \in Tasks : Ran(t, "initialize") /\ allocated = 2
    /\ \E h \in handles :
          /\ Disjoint(h, Unwrap(TELEMETRY))
          /\ inference_step[h.inference_step] # 0

\* The text "false" in any letter case.
IsFalseAnyCase(s) ==
    /\ Len(s) = 5
    /\ s[1] \in {"f", "F"}
    /\ s[2] \in {"a", "A"}
    /\ s[3] \in {"l", "L"}
    /\ s[4] \in {"s", "S"}
    /\ s[5] \in {"e", "E"}

\* C14: when the toggle is read, it becomes false exactly if the setting is
\* present and is "false" in some letter case, and true otherwise (absent
\* included); once read it never changes, whatever the setting becomes; and
\* every get() follows the toggle: with the toggle false it has returned None
\* in its first step, with the toggle true it goes on to the slot.
C14_ToggleReadOnce ==
    /\ [](\A t \in Tasks :
            ret[t].fn = "get" =>
                /\ IsSome(TELEMETRY_ENABLED)
                /\ ~Unwrap(TELEMETRY_ENABLED) =>
                      Idle(t) /\ ret[t].val = None /\ observed[t].steps = 1
                /\ (Unwrap(TELEMETRY_ENABLED) /\ Idle(t)) =>
                      observed[t].steps = 4)
    /\ [][ /\ (TELEMETRY_ENABLED = None /\ TELEMETRY_ENABLED' # None) =>
               Unwrap(TELEMETRY_ENABLED') =
                   ~(/\ IsSome(ENABLE_TELEMETRY)
                     /\ IsFalseAnyCase(Unwrap(ENABLE_TELEMETRY)))
           /\ TELEMETRY_ENABLED # None => TELEMETRY_ENABLED' = TELEMETRY_ENABLED
          ]_vars

\* The toggle was read as false, the setting is now "true", an instance is
\* installed, and the get() calls of two tasks have both returned None.
C14_Witness ==
    /\ TELEMETRY_ENABLED = Some(FALSE)
    /\ ENABLE_TELEMETRY = Some(<<"t", "r", "u", "e">>)
    /\ IsSome(TELEMETRY)
    /\ \E t, u \in Tasks :
          /\ t # u
          /\ Ran(t, "get") /\ ret[t].val = None
          /\ Ran(u, "get") /\ ret[u].val = None

\* C15: a drain task that initialize has spawned never ends, whatever its
\* polls return.
C15_DrainKeepsPolling ==
    \A i \in Instances : eventloop[i].state # "ended"

SlotHolderLabels ==
    { "initialize_install", "initialize_return", "get_clone", "get_return",
      "try_get_clone", "try_get_return" }

\* C16: under fair scheduling every get() and every initialize that has begun
\* returns; the slot lock is held only inside the critical sections, whose
\* steps never wait (a holder can always take its next step, which leads to
\* the release); and while a task is inside a call some task can take a step.
C16_SlotCallsReturn ==
    /\ \A t \in Tasks :
          (ret[t].fn \in {"get", "initialize"} /\ ~Idle(t)) ~> Idle(t)
    /\ [](\A t \in Tasks :
            /\ TELEMETRY_lock = t <=> pc[t] \in SlotHolderLabels
            /\ pc[t] \in SlotHolderLabels => ENABLED Proceeds(t))
    /\ []((\E t \in Tasks : ~Idle(t)) => ENABLED NextSlotFair)

\* One task is inside initialize holding the slot lock while a get() and
\* another initialize wait for it.
C16_Witness ==
    \E t, u \in Tasks :
        /\ t # u
        /\ pc[t] = "initialize_install"
        /\ TELEMETRY_lock = t
        /\ pc[u] \in {"get_lock", "initialize_lock"}
        /\ ~ENABLED Acquires(u)

\* The values each counter of task t's publish has held from the beginning
\* of the call until now.
HeldSoFar(t) == Holding(observed[t].held, Self(t))

\* The envelope of the publish of task t is the one built from the three
\* values its readers returned.
BodyFromReads(t) ==
    local[t].body =
        to_string(TelemetryPayload(local[t].fn, local[t].vt, local[t].st,
                                   Unwrap(local[t].payload)))

\* C17 (as claimed): when publish hands its message to the client, each of
\* the three values in the envelope is a value its counter has held at some
\* moment since the call began.
C17_ValuesWereHeld ==
    \A t \in Tasks :
        pc[t] = "publish_send" =>
            /\ BodyFromReads(t)
            /\ local[t].fn \in HeldSoFar(t)[1]
            /\ local[t].vt \in HeldSoFar(t)[2]
            /\ local[t].st \in HeldSoFar(t)[3]

\* C17 (amended): when publish hands its message to the client, the
\* inference step in the envelope is a value the counter has held since the
\* call began, and the frame number and the video timestamp are each such a
\* value or 0; the frame number is 0 without having been held only if the
\* frame-number lock was held when publish tried it, and publish passes from
\* the video timestamp to the inference step without the guard only when the
\* video-timestamp lock is held by another task, and then with 0.
C17_ValuesHeldOrZero ==
    /\ [](\A t \in Tasks :
            pc[t] = "publish_send" =>
                /\ BodyFromReads(t)
                /\ local[t].st \in HeldSoFar(t)[3]
                /\ \/ local[t].fn \in HeldSoFar(t)[1]
                   \/ local[t].fn = 0 /\ ~observed[t].free
                /\ \/ local[t].vt \in HeldSoFar(t)[2]
                   \/ local[t].vt = 0)
    /\ [][ \A t \in Tasks :
              /\ (pc[t] = "publish_video_timestamp"
                    /\ pc'[t] = "publish_inference_step") =>
                    /\ video_timestamp_lock[Self(t).video_timestamp] \notin {NoTask, t}
                    /\ local'[t].vt = 0
              /\ (pc[t] = "get_video_timestamp_read" /\ pc'[t] # pc[t]) =>
                    local'[t].vt = video_timestamp[Self(t).video_timestamp]
              /\ (pc[t] = "get_frame_number_read" /\ pc'[t] # pc[t]) =>
                    local'[t].fn = frame_number[Self(t).frame_number]
          ]_vars

\* A publish is about to hand over an envelope whose frame number is 0
\* although the counter has not held 0 since the call began: the lock was
\* held by a writer when publish tried it.
C17_Witness ==
    \E t \in Tasks :
        /\ pc[t] = "publish_send"
        /\ local[t].fn = 0
        /\ 0 \notin HeldSoFar(t)[1]
        /\ ~observed[t].free
        /\ local[t].st \in HeldSoFar(t)[3]

FrameOps == {"update_frame_number", "increment_frame_number", "get_frame_number"}
VideoOps == {"update_video_timestamp", "get_video_timestamp"}
StepOps == {"update_inference_step", "increment_inference_step", "get_inference_step"}

\* Task t takes the first step of a call of one of the functions in `ops`.
Calls(t, ops) == Idle(t) /\ Acts(t) /\ calls' # calls /\ ret'[t].fn \in ops

\* C18: a step of a frame-number operation leaves the video timestamp, its
\* lock and the inference step as they were, and likewise for the operations
\* on the other two counters; a frame-number operation gets its guard exactly
\* when the frame-number lock is free and a video-timestamp operation exactly
\* when the video-timestamp lock is free, whatever the state of the other
\* lock; and an inference-step operation takes effect in its single step
\* whatever locks are held.
C18_CountersIndependent ==
    [][ \A t \in Tasks :
          /\ (Acts(t) /\ ret'[t].fn \in FrameOps) =>
                /\ video_timestamp' = video_timestamp
                /\ video_timestamp_lock' = video_timestamp_lock
                /\ inference_step' = inference_step
          /\ (Acts(t) /\ ret'[t].fn \in VideoOps) =>
                /\ frame_number' = frame_number
                /\ frame_number_lock' = frame_number_lock
                /\ inference_step' = inference_step
          /\ (Acts(t) /\ ret'[t].fn \in StepOps) =>
                /\ frame_number' = frame_number
                /\ frame_number_lock' = frame_number_lock
                /\ video_timestamp' = video_timestamp
                /\ video_timestamp_lock' = video_timestamp_lock
          /\ Calls(t, FrameOps) =>
                LET c == ret'[t].args[1].frame_number IN
                    /\ frame_number_lock[c] = NoTask =>
                          ~Idle(t)' /\ frame_number_lock'[c] = t
                    /\ frame_number_lock[c] # NoTask =>
                          Idle(t)' /\ frame_number_lock'[c] = frame_number_lock[c]
          /\ Calls(t, VideoOps) =>
                LET c == ret'[t].args[1].video_timestamp IN
                    /\ video_timestamp_lock[c] = NoTask =>
                          ~Idle(t)' /\ video_timestamp_lock'[c] = t
                    /\ video_timestamp_lock[c] # NoTask =>
                          Idle(t)' /\ video_timestamp_lock'[c] = video_timestamp_lock[c]
          /\ Calls(t, StepOps) =>
                LET c == ret'[t].args[1].inference_step IN
                    /\ Idle(t)'
                    /\ ret'[t].fn = "update_inference_step" =>
                          inference_step'[c] = ret'[t].args[2]
                    /\ ret'[t].fn = "increment_inference_step" =>
                          inference_step'[c] = WrappingAdd(inference_step[c], 1)
                    /\ ret'[t].fn = "get_inference_step" =>
                          ret'[t].val = inference_step[c]
      ]_vars

\* While one task holds the frame-number lock inside a writer, another task
\* has got the video-timestamp guard of the same instance and written its
\* value.
C18_Witness ==
    \E t, u \in Tasks :
        /\ t # u
        /\ pc[u] = "update_frame_number_write"
        /\ pc[t] = "update_video_timestamp_drop"
        /\ SameInstance(Self(t), Self(u))
        /\ frame_number_lock[Self(u).frame_number] = u
        /\ video_timestamp[Self(t).video_timestamp] = local[t].n
        /\ local[t].n # 0

\* The Telemetry values in a set of Options.
Present(options) == {Unwrap(o) : o \in options \ {None}}

\* Every Telemetry value there is: the slot content, the handles callers
\* hold, and the clones get() and try_get() are about to return.
AllHandles ==
    handles \cup Present({TELEMETRY})
            \cup Present({local[t].telemetry : t \in Tasks})

\* C19: two Telemetry values that come from the same initialization (the same
\* client) have the same three counter cells and the same identifier, and two
\* that come from different initializations have no cell in common; a reader
\* called through a handle returns what its cell holds (for the two guarded
\* counters: when it got the guard), so what was written last through any
\* handle of the same initialization.
C19_HandlesShareCounters ==
    /\ \A a, b \in AllHandles :
          /\ a.client = b.client => Cells(a) = Cells(b) /\ a.robot_id = b.robot_id
          /\ a.client # b.client => Disjoint(a, b)
    /\ \A t \in Tasks :
          /\ Ran(t, "get_inference_step") => ret[t].val = observed[t].snapshot
          /\ (ret[t].fn = "get_frame_number" /\ pc[t] = "get_frame_number_drop") =>
                local[t].fn = frame_number[ret[t].args[1].frame_number]
          /\ (ret[t].fn = "get_video_timestamp" /\ pc[t] = "get_video_timestamp_drop") =>
                local[t].vt = video_timestamp[ret[t].args[1].video_timestamp]

\* A value one task has stored in the inference step through a handle has
\* been returned by the reader another task called through a handle of the
\* same initialization.
C19_Witness ==
    \E t, u \in Tasks :
        /\ t # u
        /\ Ran(t, "update_inference_step")
        /\ Ran(u, "get_inference_step")
        /\ ret[t].args[1].client = ret[u].args[1].client
        /\ ret[u].val = ret[t].args[2]
        /\ ret[u].val # 0

\* The increment_frame_number calls running on the counter cell i.
Incrementing(i) ==
    { t \in Tasks : /\ pc[t] \in { "increment_frame_number_add", "increment_frame_number_drop" }
                    /\ Self(t).frame_number = i }

\* C20 as stated: after N >= 1 increment_frame_number calls on one instance
\* whose frame number was v, with no other operation on the counter, the
\* frame number is at most v + N, and at least v + 1 once the calls have
\* returned.
C20_IncrementsBounded ==
    \A i \in 1..allocated :
        LET v == frame_history[i].stored
            N == frame_history[i].tried
        IN N >= 1 =>
              /\ frame_number[i] <= v + N
              /\ Incrementing(i) = {} => frame_number[i] >= v + 1

\* C20, amended: the bounds of C20 hold when v + N does not exceed u64::MAX.
\* In every case each call adds at most once: the frame number is v plus the
\* number of additions made, modulo 2^64, and there are no more additions
\* than calls.
C20_IncrementsBoundedInRange ==
    \A i \in 1..allocated :
        LET v == frame_history[i].stored
            N == frame_history[i].tried
            added == frame_history[i].added
        IN /\ added <= N
           /\ frame_number[i] = (v + added) % (U64Max + 1)
           /\ (N >= 1 /\ v + N <= U64Max) =>
                 /\ frame_number[i] <= v + N
                 /\ Incrementing(i) = {} => frame_number[i] >= v + 1

\* Two tasks have called increment_frame_number on the same instance at the
\* same time: one held the lock, the other found it held and dropped its
\* increment, and the frame number has advanced by one.
C20_Witness ==
    \E t, u \in Tasks :
        /\ t # u
        /\ Ran(t, "increment_frame_number")
        /\ Ran(u, "increment_frame_number")
        /\ ret[t].args[1].frame_number = ret[u].args[1].frame_number
        /\ observed[t].free /\ ~observed[u].free
        /\ LET i == ret[t].args[1].frame_number
           IN /\ frame_history[i].tried = 2
              /\ frame_number[i] = frame_history[i].stored + 1

====
